---- MODULE Spec2Model ----
(***************************************************************************)
(* A model of logwrapper/logwrap.c: android_fork_execvp() and its helpers  *)
(* parent() (the output pump) and child().                                 *)
(*                                                                         *)
(* One launch is a call of android_fork_execvp by a thread.  Every         *)
(* statement of the function that touches shared or OS state is one step   *)
(* of the calling thread (pc[t] names the next statement).  The pump loop  *)
(* of parent() is three steps per cycle: poll, read+scan+compact, waitpid. *)
(* The child process, the kernel's signal delivery and the pseudo terminal *)
(* are the environment.                                                    *)
(***************************************************************************)
EXTENDS Integers, Sequences, FiniteSets, TLC

(* ------------------------------ bounds -------------------------------- *)
\* Number of threads of the calling process that may call android_fork_execvp.
NThreads == 2
\* Longest byte stream a child writes, in the pump specification.
MaxLen == 4
\* sizeof(buffer) of parent(), scaled down from 4096 (logwrap.c:54): every
\* use of the capacity in the code is through sizeof(buffer).
BufSize == 4
\* How many reads of one pump run may return 0 or -1.
MaxReadFail == 1

(* ------------------------- program constants -------------------------- *)
LF == 10
CR == 13
NUL == 0
SIGINT == 2
SIGQUIT == 3
ECHILD == 10
EINVAL == 22

\* Content of a byte of buffer[] that was never written.
Indet == 0 - 1

Threads == 1..NThreads
NoThread == 0
Signals == {SIGINT, SIGQUIT}

\* The bytes a child writes: newline, carriage return and an ordinary byte.
Bytes == {LF, CR, 97}

Streams(n) == UNION {[1..k -> Bytes] : k \in 0..n}

\* The streams of the launcher specification: nothing, one terminated line,
\* one unterminated fragment.
SmallStreams == {<<>>, <<97, LF>>, <<98>>}

\* What the child writes to its stderr (the terminal) when execvp fails
\* (FATAL_CHILD, "executing %s failed: %s\n"), as the master reads it.
ExecFailMsg == <<97, CR, LF>>

(* ----------------------------- wait status ---------------------------- *)
\* How a child ends: exit(n) or death by signal n.
Fates == {[kind |-> "exit", n |-> 0], [kind |-> "exit", n |-> 1],
          [kind |-> "signal", n |-> 9]}

\* The status word the kernel hands to waitpid for a fate.
WaitStatus(f) == IF f.kind = "exit" THEN f.n * 256 ELSE f.n

WTERMSIG(s) == s % 128
WIFEXITED(s) == WTERMSIG(s) = 0
WEXITSTATUS(s) == (s \div 256) % 256
WIFSIGNALED(s) == WTERMSIG(s) # 0 /\ WTERMSIG(s) # 127
WIFSTOPPED(s) == s % 256 = 127
WSTOPSIG(s) == WEXITSTATUS(s)

(* ------------------------------ log sink ------------------------------ *)
\* One record pushed to the log sink by ALOG.  what = "line": a line of the
\* child's output under the program's base name; otherwise a record under
\* the tag "logwrapper"/"logwrap" (a summary or an error message).
LineEntry(bytes) == [tag |-> "btag", what |-> "line", line |-> bytes, n |-> 0]
NoteEntry(w, k) == [tag |-> "logwrapper", what |-> w, line |-> <<>>, n |-> k]

(* ------------------------- the pump's buffer --------------------------- *)
BufIdx == 0..(BufSize - 1)

\* printf("%s", &buffer[i]): the bytes from index i up to the first NUL.
RECURSIVE CStr(_, _)
CStr(bf, i) ==
    IF i >= BufSize \/ bf[i] = NUL THEN <<>> ELSE <<bf[i]>> \o CStr(bf, i + 1)

\* read(parent_read, &buffer[pb], ...) storing the bytes of data.
ReadInto(bf, pb, data) ==
    [i \in BufIdx |-> IF i >= pb /\ i < pb + Len(data) THEN data[i - pb + 1] ELSE bf[i]]

\* The loop "for (b = 0; b < sz; b++)" of parent(), from index i on, with
\* the lines it has logged so far.
RECURSIVE Scan(_, _, _, _, _, _)
Scan(bf, pa, i, sz, out, logwrap) ==
    IF i >= sz THEN [buffer |-> bf, a |-> pa, b |-> i, out |-> out]
    ELSE IF bf[i] = CR THEN
        Scan([bf EXCEPT ![i] = NUL], pa, i + 1, sz, out, logwrap)
    ELSE IF bf[i] = LF THEN
        LET bf2 == [bf EXCEPT ![i] = NUL] IN
        Scan(bf2, i + 1, i + 1, sz,
             IF logwrap THEN Append(out, LineEntry(CStr(bf2, pa))) ELSE out, logwrap)
    ELSE Scan(bf, pa, i + 1, sz, out, logwrap)

\* Mutant of Compact: a full buffer is kept instead of flushed.
CompactNoFlush(r, logwrap) ==
    IF r.a # r.b THEN
        LET nb == r.b - r.a IN
        [buffer |-> [i \in BufIdx |-> IF i < nb THEN r.buffer[i + r.a] ELSE r.buffer[i]],
         a |-> 0, b |-> nb, out |-> r.out]
    ELSE [buffer |-> r.buffer, a |-> 0, b |-> 0, out |-> r.out]

\* The three-way branch after the loop: forced flush of a full buffer,
\* keeping the left-overs, or an empty buffer.
Compact(r, logwrap) ==
    IF r.a = 0 /\ r.b = BufSize - 1 THEN
        LET bf2 == [r.buffer EXCEPT ![r.b] = NUL] IN
        [buffer |-> bf2, a |-> r.a, b |-> 0,
         out |-> IF logwrap THEN Append(r.out, LineEntry(CStr(bf2, r.a))) ELSE r.out]
    ELSE IF r.a # r.b THEN
        LET nb == r.b - r.a IN
        [buffer |-> [i \in BufIdx |-> IF i < nb THEN r.buffer[i + r.a] ELSE r.buffer[i]],
         a |-> 0, b |-> nb, out |-> r.out]
    ELSE [buffer |-> r.buffer, a |-> 0, b |-> 0, out |-> r.out]

\* The body of "if (revents & POLLIN)": read returned n (-1, 0, or the
\* length of data), then the scan and the branch after it.
PumpCycle(bf, pa, pb, n, data, logwrap) ==
    LET bf1 == IF n > 0 THEN ReadInto(bf, pb, data) ELSE bf
        sz == n + pb
    IN Compact(Scan(bf1, pa, 0, sz, <<>>, logwrap), logwrap)

\* Mutant of RcOfStatus: the status word is returned undecoded.
RcOfStatusRaw(st) == st

\* The value of rc when no status slot was supplied.
RcOfStatus(st) == IF WIFEXITED(st) THEN WEXITSTATUS(st) ELSE 0 - ECHILD

\* Mutant of RcWithSlot: the status word is also returned.
RcWithSlotRaw(rc0, st) == st

\* The value of rc when a status slot was supplied: rc is left as it was.
RcWithSlot(rc0, st) == rc0

\* Mutant of Summary: a summary record whatever the status.
SummaryAlways(st) == <<NoteEntry("exit", WEXITSTATUS(st))>>

\* The summary record after the pump, if any.
Summary(st) ==
    IF WIFEXITED(st) THEN
        IF WEXITSTATUS(st) # 0 THEN <<NoteEntry("exit", WEXITSTATUS(st))>> ELSE <<>>
    ELSE IF WIFSIGNALED(st) THEN <<NoteEntry("signal", WTERMSIG(st))>>
    ELSE IF WIFSTOPPED(st) THEN <<NoteEntry("stopped", WSTOPSIG(st))>>
    ELSE <<>>

\* "Flush remaining data" after the pump.
FinalFlush(bf, pa, pb) ==
    IF pa # pb THEN <<LineEntry(CStr([bf EXCEPT ![pb] = NUL], pa))>> ELSE <<>>

(* ------------------------------ the state ------------------------------ *)
VARIABLES
    pc,          \* per thread: the statement of android_fork_execvp it is at
    args,        \* per thread: status slot supplied, ignore_int_quit, logwrap
    rc,          \* per thread: the local rc
    parent_ptty, \* per thread: descriptor of the master
    child_ptty,  \* per thread: descriptor of the slave
    oldset,      \* per thread: the mask saved by pthread_sigmask(SIG_BLOCK)
    intact,      \* per thread: the SIGINT disposition saved by sigaction
    quitact,     \* per thread: the SIGQUIT disposition saved by sigaction
    fd_mutex,    \* the thread holding fd_mutex, or NoThread
    fdtab,       \* the process's descriptor table
    disp,        \* the process's signal dispositions
    mask,        \* per thread: its blocked signals
    pending,     \* per thread: signals sent to it and blocked
    killedBy,    \* the thread whose signal terminated the process, or NoThread
    buffer,      \* per thread: buffer[] of parent()
    a,           \* per thread: start index of unprocessed data
    b,           \* per thread: end index of unprocessed data
    revents,     \* per thread: poll_fds[0].revents
    status,      \* per thread: the local status of parent()
    chld_sts,    \* per thread: the caller's status slot
    child,       \* per thread: the state of the launch's child process
    pty,         \* per thread: the bytes of the child not yet read from the master
    fate,        \* per thread: how the child ends
    childimg,    \* per thread: the child's copy of the process image
    log,         \* per thread: the records the launch pushed to the log sink
    orig,        \* per thread: everything the child writes (history)
    readFails,   \* per thread: reads that returned 0 or -1 (history)
    reaps,       \* per thread: waitpid calls that returned the child (history)
    entry        \* per thread: mask and dispositions at entry, guard engaged (history)

launchVars == <<rc, parent_ptty, child_ptty, oldset, intact, quitact>>
procVars == <<fd_mutex, fdtab, disp, mask, pending, killedBy>>
pumpVars == <<buffer, a, b, revents, status, chld_sts>>
childVars == <<child, pty, fate, childimg>>
histVars == <<orig, readFails, reaps, entry>>
vars == <<pc, args, launchVars, procVars, pumpVars, childVars, log, histVars>>

FdNums == 0..4
NoFd == 0 - 1
AllStd == [n \in FdNums |-> IF n <= 2 THEN "std" ELSE "closed"]
\* Descriptor tables a caller may have: the three standard streams open, or
\* stderr closed, or stdout and stderr closed.
InitFdTabs == {AllStd, [AllStd EXCEPT ![2] = "closed"],
               [AllStd EXCEPT ![1] = "closed", ![2] = "closed"]}

HasFree(tab) == \E n \in FdNums : tab[n] = "closed"
\* open() returns the lowest descriptor not in use.
LowestFree(tab) == CHOOSE n \in FdNums : tab[n] = "closed" /\ \A m \in 0..(n - 1) : tab[m] # "closed"
\* Mutant of Close: the descriptor stays open.
CloseNothing(tab, n) == tab

Close(tab, n) == IF n \in FdNums THEN [tab EXCEPT ![n] = "closed"] ELSE tab
Dup2(tab, old, new) ==
    IF old \in FdNums /\ tab[old] # "closed" /\ new \in FdNums
    THEN [tab EXCEPT ![new] = tab[old]] ELSE tab

FreshBuffer == [i \in BufIdx |-> Indet]
NoArgs == [slot |-> FALSE, ignore_int_quit |-> FALSE, logwrap |-> FALSE, resolvable |-> TRUE]
NoFate == [kind |-> "exit", n |-> 0]
NoImage == [fds |-> AllStd, mask |-> {}, mutex |-> NoThread, oldset |-> {},
            parent_ptty |-> NoFd, child_ptty |-> NoFd]
NoEntry == [mask |-> {}, disp |-> [s \in Signals |-> "DFL"], engaged |-> FALSE]

Dispositions == {"DFL", "IGN", "HND"}

\* The state before any call: every thread idle, the lock free.
InitWith(tabs, disps, masks) ==
    /\ pc = [t \in Threads |-> "idle"]
    /\ args = [t \in Threads |-> NoArgs]
    /\ rc = [t \in Threads |-> 0]
    /\ parent_ptty = [t \in Threads |-> NoFd]
    /\ child_ptty = [t \in Threads |-> NoFd]
    /\ oldset = [t \in Threads |-> {}]
    /\ intact = [t \in Threads |-> "unset"]
    /\ quitact = [t \in Threads |-> "unset"]
    /\ fd_mutex = NoThread
    /\ fdtab \in tabs
    /\ disp \in [Signals -> disps]
    /\ mask \in [Threads -> masks]
    /\ pending = [t \in Threads |-> {}]
    /\ killedBy = NoThread
    /\ buffer = [t \in Threads |-> FreshBuffer]
    /\ a = [t \in Threads |-> 0]
    /\ b = [t \in Threads |-> 0]
    /\ revents = [t \in Threads |-> {}]
    /\ status = [t \in Threads |-> 0]
    /\ chld_sts = [t \in Threads |-> Indet]
    /\ child = [t \in Threads |-> "none"]
    /\ pty = [t \in Threads |-> <<>>]
    /\ fate = [t \in Threads |-> NoFate]
    /\ childimg = [t \in Threads |-> NoImage]
    /\ log = [t \in Threads |-> <<>>]
    /\ orig = [t \in Threads |-> <<>>]
    /\ readFails = [t \in Threads |-> 0]
    /\ reaps = [t \in Threads |-> 0]
    /\ entry = [t \in Threads |-> NoEntry]

(* ------------------------- android_fork_execvp ------------------------- *)
Set(f, t, v) == [f EXCEPT ![t] = v]
\* Thread t of the live process is at statement l.
At(t, l) == killedBy = NoThread /\ pc[t] = l
Logged(t, entries) == [log EXCEPT ![t] = log[t] \o entries]

\* Mutant of BlockSet: SIGQUIT is left out of the blocked set.
BlockSetIntOnly == {SIGINT}

\* The signals android_fork_execvp blocks before fork.
BlockSet == {SIGINT, SIGQUIT}

\* A thread calls android_fork_execvp(argc, argv, status, ignore_int_quit, logwrap).
Call(t, inputs) ==
    /\ At(t, "idle")
    /\ \E i \in inputs : args' = Set(args, t, i)
    /\ pc' = Set(pc, t, "lock")
    /\ entry' = Set(entry, t, [mask |-> mask[t], disp |-> disp, engaged |-> FALSE])
    /\ UNCHANGED <<launchVars, procVars, pumpVars, childVars, log, orig, readFails, reaps>>

\* Mutant of LockFree: the lock excludes nobody.
LockAlwaysFree(owner) == TRUE

\* Whether pthread_mutex_lock may take the mutex.
LockFree(owner) == owner = NoThread

\* rc = pthread_mutex_lock(&fd_mutex), acquired.
Lock(t) ==
    /\ At(t, "lock")
    /\ LockFree(fd_mutex)
    /\ fd_mutex' = t
    /\ rc' = Set(rc, t, 0)
    /\ pc' = Set(pc, t, "open_ptmx")
    /\ UNCHANGED <<args, parent_ptty, child_ptty, oldset, intact, quitact, fdtab, disp,
                   mask, pending, killedBy, pumpVars, childVars, log, histVars>>

\* rc = pthread_mutex_lock(&fd_mutex) returned an error number: goto err_lock.
LockFail(t) ==
    /\ At(t, "lock")
    /\ rc' = Set(rc, t, EINVAL)
    /\ log' = Logged(t, <<NoteEntry("failed to lock", 0)>>)
    /\ pc' = Set(pc, t, "ret")
    /\ UNCHANGED <<args, parent_ptty, child_ptty, oldset, intact, quitact, procVars,
                   pumpVars, childVars, histVars>>

\* A setup step failed: ERROR(...); rc = -1; goto the label.
SetupFail(t, what, label) ==
    /\ rc' = Set(rc, t, 0 - 1)
    /\ log' = Logged(t, <<NoteEntry(what, 0)>>)
    /\ pc' = Set(pc, t, label)

\* parent_ptty = open("/dev/ptmx", O_RDWR)
OpenPtmx(t) ==
    /\ At(t, "open_ptmx")
    /\ \/ /\ HasFree(fdtab)
          /\ parent_ptty' = Set(parent_ptty, t, LowestFree(fdtab))
          /\ fdtab' = [fdtab EXCEPT ![LowestFree(fdtab)] = "ptmx"]
          /\ pc' = Set(pc, t, "grantpt")
          /\ UNCHANGED <<rc, log>>
       \/ /\ SetupFail(t, "Cannot create parent ptty", "unlock")
          /\ UNCHANGED <<parent_ptty, fdtab>>
    /\ UNCHANGED <<args, child_ptty, oldset, intact, quitact, fd_mutex, disp, mask,
                   pending, killedBy, pumpVars, childVars, histVars>>

\* grantpt(parent_ptty) || unlockpt(parent_ptty) || ptsname(parent_ptty) == 0
GrantPt(t) ==
    /\ At(t, "grantpt")
    /\ \/ /\ pc' = Set(pc, t, "open_pts")
          /\ UNCHANGED <<rc, log>>
       \/ \E failed \in {"grantpt", "unlockpt", "ptsname"} :
             SetupFail(t, "Problem with /dev/ptmx", "close_master")
    /\ UNCHANGED <<args, parent_ptty, child_ptty, oldset, intact, quitact, procVars,
                   pumpVars, childVars, histVars>>

\* child_ptty = open(child_devname, O_RDWR)
OpenPts(t) ==
    /\ At(t, "open_pts")
    /\ \/ /\ HasFree(fdtab)
          /\ child_ptty' = Set(child_ptty, t, LowestFree(fdtab))
          /\ fdtab' = [fdtab EXCEPT ![LowestFree(fdtab)] = "pts"]
          /\ pc' = Set(pc, t, "sigblock")
          /\ UNCHANGED <<rc, log>>
       \/ /\ SetupFail(t, "Cannot open child_ptty", "close_master")
          /\ UNCHANGED <<child_ptty, fdtab>>
    /\ UNCHANGED <<args, parent_ptty, oldset, intact, quitact, fd_mutex, disp, mask,
                   pending, killedBy, pumpVars, childVars, histVars>>

\* sigemptyset, sigaddset x2, pthread_sigmask(SIG_BLOCK, &blockset, &oldset)
SigBlock(t) ==
    /\ At(t, "sigblock")
    /\ oldset' = Set(oldset, t, mask[t])
    /\ mask' = Set(mask, t, mask[t] \cup BlockSet)
    /\ entry' = Set(entry, t, [entry[t] EXCEPT !.engaged = TRUE])
    /\ pc' = Set(pc, t, "fork")
    /\ UNCHANGED <<args, rc, parent_ptty, child_ptty, intact, quitact, fd_mutex, fdtab,
                   disp, pending, killedBy, pumpVars, childVars, log, orig, readFails, reaps>>

\* Mutant of MutexInParent: the parent branch unlocks like the child branch.
MutexReleasedInParent(owner) == NoThread

\* The owner of fd_mutex in the parent after fork returned: the parent branch
\* does not touch the mutex.
MutexInParent(owner) == owner

\* pid = fork(): the child gets a copy of the image; or fork fails:
\* close(child_ptty); rc = -1; goto err_fork.
Fork(t) ==
    /\ At(t, "fork")
    /\ \/ /\ child' = Set(child, t, "forked")
          /\ childimg' = Set(childimg, t,
                 [fds |-> fdtab, mask |-> mask[t], mutex |-> fd_mutex, oldset |-> oldset[t],
                  parent_ptty |-> parent_ptty[t], child_ptty |-> child_ptty[t]])
          /\ fd_mutex' = MutexInParent(fd_mutex)
          /\ pc' = Set(pc, t, "parent_close")
          /\ UNCHANGED <<rc, log, fdtab>>
       \/ /\ fdtab' = Close(fdtab, child_ptty[t])
          /\ SetupFail(t, "Failed to fork", "unmask")
          /\ UNCHANGED <<child, childimg, fd_mutex>>
    /\ UNCHANGED <<args, parent_ptty, child_ptty, oldset, intact, quitact, disp, mask,
                   pending, killedBy, pumpVars, pty, fate, histVars>>

\* Parent branch: close(child_ptty)
ParentClose(t) ==
    /\ At(t, "parent_close")
    /\ fdtab' = Close(fdtab, child_ptty[t])
    /\ pc' = Set(pc, t, IF args[t].ignore_int_quit THEN "ign_int" ELSE "poll")
    /\ UNCHANGED <<args, launchVars, fd_mutex, disp, mask, pending, killedBy, pumpVars,
                   childVars, log, histVars>>

\* Setting a disposition to SIG_IGN discards the pending signal.
Discard(s) == [u \in Threads |-> pending[u] \ {s}]

\* sigaction(SIGINT, &ignact, &intact)
IgnInt(t) ==
    /\ At(t, "ign_int")
    /\ intact' = Set(intact, t, disp[SIGINT])
    /\ disp' = [disp EXCEPT ![SIGINT] = "IGN"]
    /\ pending' = Discard(SIGINT)
    /\ pc' = Set(pc, t, "ign_quit")
    /\ UNCHANGED <<args, rc, parent_ptty, child_ptty, oldset, quitact, fd_mutex, fdtab,
                   mask, killedBy, pumpVars, childVars, log, histVars>>

\* sigaction(SIGQUIT, &ignact, &quitact)
IgnQuit(t) ==
    /\ At(t, "ign_quit")
    /\ quitact' = Set(quitact, t, disp[SIGQUIT])
    /\ disp' = [disp EXCEPT ![SIGQUIT] = "IGN"]
    /\ pending' = Discard(SIGQUIT)
    /\ pc' = Set(pc, t, "poll")
    /\ UNCHANGED <<args, rc, parent_ptty, child_ptty, oldset, intact, fd_mutex, fdtab,
                   mask, killedBy, pumpVars, childVars, log, histVars>>

(* ------------------------------- parent() ------------------------------ *)
\* Where android_fork_execvp goes on after parent() returned.
AfterPump(t) == IF args[t].ignore_int_quit THEN "restore_int" ELSE "unmask"

\* The slave side is closed in the child (or the child is gone).
HungUp(t) == child[t] \in {"closed", "exiting", "zombie", "reaped", "gone"}

\* parent() returns: its locals are gone.
PopFrame(t) ==
    /\ buffer' = Set(buffer, t, FreshBuffer)
    /\ a' = Set(a, t, 0)
    /\ b' = Set(b, t, 0)
    /\ revents' = Set(revents, t, {})
    /\ status' = Set(status, t, 0)

\* What poll reports for the master: input available, hang-up.
Ready(t) == (IF pty[t] # <<>> THEN {"POLLIN"} ELSE {})
            \cup (IF HungUp(t) THEN {"POLLHUP"} ELSE {})

\* poll(poll_fds, 1, -1) returned with events (it blocks while there are none).
Poll(t) ==
    /\ At(t, "poll")
    /\ Ready(t) # {}
    /\ revents' = Set(revents, t, Ready(t))
    /\ pc' = Set(pc, t, IF "POLLIN" \in Ready(t) THEN "read" ELSE "hup")
    /\ UNCHANGED <<args, launchVars, procVars, buffer, a, b, status, chld_sts, childVars,
                   log, histVars>>

\* poll failed (not EINTR): ERROR("poll failed"); rc = -1; goto err_poll.
PollFail(t) ==
    /\ At(t, "poll")
    /\ rc' = Set(rc, t, 0 - 1)
    /\ log' = Logged(t, <<NoteEntry("poll failed", 0)>>)
    /\ pc' = Set(pc, t, AfterPump(t))
    /\ PopFrame(t)
    /\ UNCHANGED <<args, parent_ptty, child_ptty, oldset, intact, quitact, procVars,
                   chld_sts, childVars, histVars>>

Min(x, y) == IF x <= y THEN x ELSE y

\* The byte counts a successful read(fd, &buffer[b], req) may return: any
\* part of what the child has written and the pump has not read, up to req.
\* A read may be short after the hang-up too: the hang-up can be flagged
\* before the bytes of the child's last writes are in the master's queue.
ReadCounts(t, req) ==
    IF req <= 0 \/ pty[t] = <<>> THEN {}
    ELSE 1..Min(Len(pty[t]), req)

\* The body of "if (revents & POLLIN)" with read returning n.
ReadStep(t, n) ==
    LET data == IF n > 0 THEN SubSeq(pty[t], 1, n) ELSE <<>>
        r == PumpCycle(buffer[t], a[t], b[t], n, data, args[t].logwrap)
    IN /\ buffer' = Set(buffer, t, r.buffer)
       /\ a' = Set(a, t, r.a)
       /\ b' = Set(b, t, r.b)
       /\ log' = Logged(t, r.out)
       /\ pty' = Set(pty, t, IF n > 0 THEN SubSeq(pty[t], n + 1, Len(pty[t])) ELSE pty[t])
       /\ pc' = Set(pc, t, IF "POLLHUP" \in revents[t] THEN "hup" ELSE "poll")

\* sz = read(...) returned data.
Read(t) ==
    /\ At(t, "read")
    /\ \E n \in ReadCounts(t, BufSize - 1 - b[t]) : ReadStep(t, n)
    /\ UNCHANGED <<args, launchVars, procVars, revents, status, chld_sts, child, fate,
                   childimg, histVars>>

\* sz = read(...) returned 0 or -1.
ReadFail(t) ==
    /\ At(t, "read")
    /\ readFails[t] < MaxReadFail
    /\ \E n \in {0, 0 - 1} : ReadStep(t, n)
    /\ readFails' = Set(readFails, t, readFails[t] + 1)
    /\ UNCHANGED <<args, launchVars, procVars, revents, status, chld_sts, child, fate,
                   childimg, orig, reaps, entry>>

\* Mutant of LoopExit: finding the child does not end the loop.
LoopNeverExits(found) == "poll"

\* while (!found_child): where the pump goes on after a cycle.
LoopExit(found) == IF found THEN "done" ELSE "poll"

\* ret = waitpid(pid, &status, WNOHANG) in "if (revents & POLLHUP)" returned
\* the child: found_child = true.
HupFound(t) ==
    /\ At(t, "hup")
    /\ child[t] = "zombie"
    /\ status' = Set(status, t, WaitStatus(fate[t]))
    /\ child' = Set(child, t, "reaped")
    /\ reaps' = Set(reaps, t, reaps[t] + 1)
    /\ pc' = Set(pc, t, LoopExit(TRUE))
    /\ UNCHANGED <<args, launchVars, procVars, buffer, a, b, revents, chld_sts, pty, fate,
                   childimg, log, orig, readFails, entry>>

\* waitpid returned 0: the child has not ended (or was found before).
HupNotYet(t) ==
    /\ At(t, "hup")
    /\ child[t] # "zombie"
    /\ pc' = Set(pc, t, LoopExit(FALSE))
    /\ UNCHANGED <<args, launchVars, procVars, pumpVars, childVars, log, histVars>>

\* waitpid returned -1: the child was reaped elsewhere; rc = errno, goto
\* err_waitpid.
HupFail(t) ==
    /\ At(t, "hup")
    /\ child[t] = "zombie"
    /\ rc' = Set(rc, t, ECHILD)
    /\ log' = Logged(t, <<NoteEntry("waitpid failed", ECHILD)>>)
    /\ child' = Set(child, t, "gone")
    /\ pc' = Set(pc, t, AfterPump(t))
    /\ PopFrame(t)
    /\ UNCHANGED <<args, parent_ptty, child_ptty, oldset, intact, quitact, procVars,
                   chld_sts, pty, fate, childimg, histVars>>

Hup(t) == HupFound(t) \/ HupNotYet(t) \/ HupFail(t)

\* After the loop: the status slot or the translated rc, the final flush
\* and the summary record.
Done(t) ==
    /\ At(t, "done")
    /\ IF args[t].slot
       THEN /\ chld_sts' = Set(chld_sts, t, status[t])
            /\ rc' = Set(rc, t, RcWithSlot(rc[t], status[t]))
       ELSE /\ rc' = Set(rc, t, RcOfStatus(status[t]))
            /\ UNCHANGED chld_sts
    /\ log' = IF args[t].logwrap
              THEN Logged(t, FinalFlush(buffer[t], a[t], b[t]) \o Summary(status[t]))
              ELSE log
    /\ pc' = Set(pc, t, AfterPump(t))
    /\ PopFrame(t)
    /\ UNCHANGED <<args, parent_ptty, child_ptty, oldset, intact, quitact, procVars,
                   childVars, histVars>>

(* ----------------- android_fork_execvp, after parent() ----------------- *)
\* sigaction(SIGINT, &intact, NULL)
RestoreInt(t) ==
    /\ At(t, "restore_int")
    /\ disp' = [disp EXCEPT ![SIGINT] = intact[t]]
    /\ pending' = IF intact[t] = "IGN" THEN Discard(SIGINT) ELSE pending
    /\ pc' = Set(pc, t, "restore_quit")
    /\ UNCHANGED <<args, launchVars, fd_mutex, fdtab, mask, killedBy, pumpVars,
                   childVars, log, histVars>>

\* sigaction(SIGQUIT, &quitact, NULL)
RestoreQuit(t) ==
    /\ At(t, "restore_quit")
    /\ disp' = [disp EXCEPT ![SIGQUIT] = quitact[t]]
    /\ pending' = IF quitact[t] = "IGN" THEN Discard(SIGQUIT) ELSE pending
    /\ pc' = Set(pc, t, "unmask")
    /\ UNCHANGED <<args, launchVars, fd_mutex, fdtab, mask, killedBy, pumpVars,
                   childVars, log, histVars>>

\* Mutant of RestoredMask: an empty mask is installed instead of oldset.
RestoredMaskEmpty(old) == {}

\* The mask pthread_sigmask(SIG_SETMASK, &oldset, NULL) installs.
RestoredMask(old) == old

\* err_fork: pthread_sigmask(SIG_SETMASK, &oldset, NULL).  The signals that
\* are pending and no longer blocked are delivered.
Unmask(t) ==
    /\ At(t, "unmask")
    /\ LET m == RestoredMask(oldset[t])
           due == pending[t] \ m
       IN /\ mask' = Set(mask, t, m)
          /\ pending' = Set(pending, t, pending[t] \cap m)
          /\ killedBy' = IF \E s \in due : disp[s] = "DFL" THEN t ELSE killedBy
    /\ pc' = Set(pc, t, "close_master")
    /\ UNCHANGED <<args, launchVars, fd_mutex, fdtab, disp, pumpVars, childVars, log,
                   histVars>>

\* err_child_ptty, err_ptty: close(parent_ptty)
CloseMaster(t) ==
    /\ At(t, "close_master")
    /\ fdtab' = Close(fdtab, parent_ptty[t])
    /\ pc' = Set(pc, t, "unlock")
    /\ UNCHANGED <<args, launchVars, fd_mutex, disp, mask, pending, killedBy, pumpVars,
                   childVars, log, histVars>>

\* err_open: pthread_mutex_unlock(&fd_mutex)
Unlock(t) ==
    /\ At(t, "unlock")
    /\ fd_mutex' = NoThread
    /\ pc' = Set(pc, t, "ret")
    /\ UNCHANGED <<args, launchVars, fdtab, disp, mask, pending, killedBy, pumpVars,
                   childVars, log, histVars>>

\* err_lock: return rc.  The call's frame is gone; the thread may call again.
Return(t) ==
    /\ At(t, "ret")
    /\ pc' = Set(pc, t, "idle")
    /\ args' = Set(args, t, NoArgs)
    /\ rc' = Set(rc, t, 0)
    /\ parent_ptty' = Set(parent_ptty, t, NoFd)
    /\ child_ptty' = Set(child_ptty, t, NoFd)
    /\ oldset' = Set(oldset, t, {})
    /\ intact' = Set(intact, t, "unset")
    /\ quitact' = Set(quitact, t, "unset")
    /\ buffer' = Set(buffer, t, FreshBuffer)
    /\ a' = Set(a, t, 0)
    /\ b' = Set(b, t, 0)
    /\ revents' = Set(revents, t, {})
    /\ status' = Set(status, t, 0)
    /\ chld_sts' = Set(chld_sts, t, Indet)
    /\ child' = Set(child, t, "none")
    /\ pty' = Set(pty, t, <<>>)
    /\ fate' = Set(fate, t, NoFate)
    /\ childimg' = Set(childimg, t, NoImage)
    /\ log' = Set(log, t, <<>>)
    /\ orig' = Set(orig, t, <<>>)
    /\ readFails' = Set(readFails, t, 0)
    /\ reaps' = Set(reaps, t, 0)
    /\ entry' = Set(entry, t, NoEntry)
    /\ UNCHANGED procVars

(* --------------------------- the child process ------------------------- *)
\* The child branch up to execvp: unlock, restore the mask, close the
\* master, dup2 the slave onto 1 and 2, close the slave.
ChildImage(img) ==
    LET f1 == Close(img.fds, img.parent_ptty)
        f2 == Dup2(f1, img.child_ptty, 1)
        f3 == Dup2(f2, img.child_ptty, 2)
        f4 == Close(f3, img.child_ptty)
    IN [img EXCEPT !.mutex = NoThread, !.mask = img.oldset, !.fds = f4]

\* Mutant of ExecFailFate: the child of a failed execvp exits with 0.
ExecFailFateZero == [kind |-> "exit", n |-> 0]

\* FATAL_CHILD: _exit(-1), seen by the parent as exit code 255.
ExecFailFate == [kind |-> "exit", n |-> 255]

\* The child branch and child(): execvp replaces the image and the program
\* writes its output; or execvp fails.
ChildBranch(t, streams) ==
    /\ child[t] = "forked"
    /\ childimg' = Set(childimg, t, ChildImage(childimg[t]))
    /\ IF args[t].resolvable
       THEN /\ \E st \in streams :
                 /\ pty' = Set(pty, t, st)
                 /\ orig' = Set(orig, t, st)
            /\ child' = Set(child, t, "running")
       ELSE /\ child' = Set(child, t, "execfail")
            /\ UNCHANGED <<pty, orig>>
    /\ UNCHANGED <<pc, args, launchVars, procVars, pumpVars, fate, log, readFails, reaps,
                   entry>>

\* FATAL_CHILD, ERROR: fprintf(stderr, "executing %s failed: %s\n", ...); the
\* text reaches the terminal if the child's descriptor 2 is the slave.
ChildErrPrint(t) ==
    /\ child[t] = "execfail"
    /\ LET msg == IF childimg[t].fds[2] = "pts" THEN ExecFailMsg ELSE <<>>
       IN /\ pty' = Set(pty, t, pty[t] \o msg)
          /\ orig' = Set(orig, t, orig[t] \o msg)
    /\ child' = Set(child, t, "errprinted")
    /\ UNCHANGED <<pc, args, launchVars, procVars, pumpVars, fate, childimg, log,
                   readFails, reaps, entry>>

\* FATAL_CHILD, ERROR: ALOG(LOG_ERROR, "logwrapper", ...) in the child.
ChildErrLog(t) ==
    /\ child[t] = "errprinted"
    /\ log' = Logged(t, <<NoteEntry("executing failed", 0)>>)
    /\ child' = Set(child, t, "errlogged")
    /\ UNCHANGED <<pc, args, launchVars, procVars, pumpVars, pty, fate, childimg,
                   histVars>>

\* FATAL_CHILD: _exit(-1) closes the child's descriptors; the master sees
\* the hang-up before the child can be reaped.
ChildErrExit(t) ==
    /\ child[t] = "errlogged"
    /\ fate' = Set(fate, t, ExecFailFate)
    /\ child' = Set(child, t, "exiting")
    /\ UNCHANGED <<pc, args, launchVars, procVars, pumpVars, pty, childimg, log,
                   histVars>>

\* The child that called _exit(-1) becomes a zombie.
ChildErrZombie(t) ==
    /\ child[t] = "exiting"
    /\ child' = Set(child, t, "zombie")
    /\ UNCHANGED <<pc, args, launchVars, procVars, pumpVars, pty, fate, childimg, log,
                   histVars>>

\* The child whose execvp failed, after the child branch.
ChildExecFail(t) ==
    ChildErrPrint(t) \/ ChildErrLog(t) \/ ChildErrExit(t) \/ ChildErrZombie(t)

\* The launch is still waiting for its child: what the child does after
\* parent() returned without it has no effect on the call.
Watched(t) == pc[t] \in {"parent_close", "ign_int", "ign_quit", "poll", "read", "hup"}

\* The program closes its stdout and stderr and keeps running.
ChildClose(t) ==
    /\ Watched(t)
    /\ child[t] = "running"
    /\ child' = Set(child, t, "closed")
    /\ UNCHANGED <<pc, args, launchVars, procVars, pumpVars, pty, fate, childimg, log,
                   histVars>>

\* The program ends.
ChildExit(t) ==
    /\ Watched(t)
    /\ child[t] \in {"running", "closed"}
    /\ child' = Set(child, t, "zombie")
    /\ \E f \in Fates : fate' = Set(fate, t, f)
    /\ UNCHANGED <<pc, args, launchVars, procVars, pumpVars, pty, childimg, log, histVars>>

(* -------------------------------- signals ------------------------------ *)
\* Signal s is sent to thread t: kept pending if t blocks it (whatever its
\* disposition), else discarded if ignored, else delivered (the default
\* action terminates the process).
SigArrive(t, s) ==
    /\ killedBy = NoThread
    /\ IF s \in mask[t] THEN
            /\ pending' = Set(pending, t, pending[t] \cup {s})
            /\ UNCHANGED killedBy
       ELSE IF disp[s] = "IGN" THEN UNCHANGED <<pending, killedBy>>
       ELSE /\ killedBy' = IF disp[s] = "DFL" THEN t ELSE killedBy
            /\ UNCHANGED pending
    /\ UNCHANGED <<pc, args, launchVars, fd_mutex, fdtab, disp, mask, pumpVars,
                   childVars, log, histVars>>

(* ---------------------------- specifications --------------------------- *)
\* The arguments of a call that matter to it, and whether argv[0] resolves.
Inputs == [slot : BOOLEAN, ignore_int_quit : BOOLEAN, logwrap : BOOLEAN,
           resolvable : BOOLEAN]

Launcher(t, inputs) ==
    \/ Call(t, inputs) \/ Lock(t) \/ LockFail(t) \/ OpenPtmx(t) \/ GrantPt(t)
    \/ OpenPts(t) \/ SigBlock(t) \/ Fork(t) \/ ParentClose(t)
    \/ Unmask(t) \/ CloseMaster(t) \/ Unlock(t)

Guard(t) == IgnInt(t) \/ IgnQuit(t) \/ RestoreInt(t) \/ RestoreQuit(t)

Pump(t) == Poll(t) \/ PollFail(t) \/ Read(t) \/ ReadFail(t) \/ Hup(t) \/ Done(t)

\* Concurrent launches: every thread calls, without ignore_int_quit, with
\* logging and short outputs; no signals; read, poll and waitpid do not fail (setup steps
\* do).  The threads' steps interleave freely.
Init == InitWith({AllStd}, {"DFL"}, {{}})

ConcInputs == {i \in Inputs : ~i.slot /\ ~i.ignore_int_quit /\ i.logwrap /\ i.resolvable}

ConcPump(t) == Poll(t) \/ Read(t) \/ HupFound(t) \/ HupNotYet(t) \/ Done(t)

Next ==
    \E t \in Threads :
        \/ Launcher(t, ConcInputs) \/ Return(t) \/ ConcPump(t)
        \/ ChildBranch(t, SmallStreams) \/ ChildClose(t) \/ ChildExit(t)

Spec == Init /\ [][Next]_vars

\* One launch at a time by one thread, with logging, every output up to
\* MaxLen bytes, no signals.
InitPump == InitWith({AllStd}, {"DFL"}, {{}})

PumpInputs == {i \in Inputs : ~i.slot /\ ~i.ignore_int_quit /\ i.logwrap /\ i.resolvable}

NextPump ==
    \/ Launcher(1, PumpInputs) \/ Return(1) \/ Pump(1)
    \/ ChildBranch(1, Streams(MaxLen)) \/ ChildClose(1) \/ ChildExit(1)

SpecPump == InitPump /\ [][NextPump]_vars

\* One launch at a time by one thread, with every combination of arguments
\* and every descriptor table of the caller, short outputs, no signals.
InitLaunch == InitWith(InitFdTabs, {"DFL"}, {{}})

NextLaunch ==
    \/ Launcher(1, Inputs) \/ Return(1) \/ Guard(1) \/ Pump(1)
    \/ ChildBranch(1, SmallStreams) \/ ChildClose(1) \/ ChildExit(1)
    \/ ChildExecFail(1)

SpecLaunch == InitLaunch /\ [][NextLaunch]_vars

\* One launch at a time by one thread, with SIGINT and SIGQUIT sent to it at
\* any moment, under every disposition and mask it may have at entry.
InitSig == InitWith({AllStd}, Dispositions, {{}, {SIGQUIT}})

SigInputs == {i \in Inputs : ~i.slot /\ i.logwrap /\ i.resolvable}

NextSig ==
    \/ Launcher(1, SigInputs) \/ Return(1) \/ Guard(1) \/ Pump(1)
    \/ ChildBranch(1, SmallStreams) \/ ChildClose(1) \/ ChildExit(1)
    \/ \E s \in Signals : SigArrive(1, s)

SpecSig == InitSig /\ [][NextSig]_vars

\* One launch at a time by one thread in which poll and waitpid do not
\* fail, under fair scheduling: the thread goes on while it can, the child
\* gets to its execvp and the program eventually ends.
InitLive == InitWith({AllStd}, {"DFL"}, {{}})

LiveInputs == {i \in Inputs : ~i.slot /\ ~i.ignore_int_quit /\ i.resolvable}

PumpOk(t) == Poll(t) \/ Read(t) \/ ReadFail(t) \/ HupFound(t) \/ HupNotYet(t) \/ Done(t)

NextLive ==
    \/ Launcher(1, LiveInputs) \/ Return(1) \/ PumpOk(1)
    \/ ChildBranch(1, SmallStreams) \/ ChildClose(1) \/ ChildExit(1)

SpecLive ==
    /\ InitLive /\ [][NextLive]_vars
    /\ WF_vars(Launcher(1, LiveInputs) \/ Return(1) \/ PumpOk(1))
    /\ WF_vars(ChildBranch(1, SmallStreams))
    /\ WF_vars(ChildExit(1))

(* ------------------------------- claims -------------------------------- *)
\* The texts of the output lines among the records of a log.
RECURSIVE LineTexts(_)
LineTexts(lg) ==
    IF lg = <<>> THEN <<>>
    ELSE (IF Head(lg).what = "line" THEN <<Head(lg).line>> ELSE <<>>) \o LineTexts(Tail(lg))

\* The newline-terminated segments of a stream, without their newlines.
RECURSIVE Segs(_, _)
Segs(s, cur) ==
    IF s = <<>> THEN <<>>
    ELSE IF Head(s) = LF THEN <<cur>> \o Segs(Tail(s), <<>>)
    ELSE Segs(Tail(s), Append(cur, Head(s)))

\* What follows the last newline of a stream.
RECURSIVE Fragment(_, _)
Fragment(s, cur) ==
    IF s = <<>> THEN cur
    ELSE IF Head(s) = LF THEN Fragment(Tail(s), <<>>)
    ELSE Fragment(Tail(s), Append(cur, Head(s)))

\* A segment without the carriage returns that end it.
RECURSIVE StripCR(_)
StripCR(x) ==
    IF x # <<>> /\ x[Len(x)] = CR THEN StripCR(SubSeq(x, 1, Len(x) - 1)) ELSE x

ExpectedLines(s) == [i \in 1..Len(Segs(s, <<>>)) |-> StripCR(Segs(s, <<>>)[i])]

RECURSIVE Concat(_)
Concat(ls) == IF ls = <<>> THEN <<>> ELSE Head(ls) \o Concat(Tail(ls))

\* No segment of the stream reaches the length that forces a flush.
ShortSegments(s) ==
    /\ \A i \in 1..Len(Segs(s, <<>>)) : Len(Segs(s, <<>>)[i]) < BufSize - 1
    /\ Len(Fragment(s, <<>>)) < BufSize - 1

\* parent() found the child and ran to its end.
Completed(t) == reaps[t] = 1 /\ pc[t] # "done"

\* n ordinary bytes.
Run(n) == [i \in 1..n |-> 97]

PumpPcs == {"poll", "read", "hup", "done"}
SetupPcs == {"open_ptmx", "grantpt", "open_pts", "sigblock", "fork"}
\* From the fork call to the restoring of the dispositions after the pump.
GuardedPcs == {"fork", "parent_close", "ign_int", "ign_quit", "restore_int",
               "restore_quit", "unmask"} \cup PumpPcs

\* C1: with logging enabled, when the pump has completed after reading all
\* the child wrote (every read succeeding, no segment long enough to force a
\* flush), the log holds one line per newline-terminated segment, in order,
\* each the segment without its newline and the carriage returns before it.
C1_OneLinePerSegment ==
    \A t \in Threads :
        (Completed(t) /\ args[t].logwrap /\ readFails[t] = 0 /\ pty[t] = <<>>
            /\ ShortSegments(orig[t]))
        => /\ Len(LineTexts(log[t])) >= Len(ExpectedLines(orig[t]))
           /\ SubSeq(LineTexts(log[t]), 1, Len(ExpectedLines(orig[t])))
                = ExpectedLines(orig[t])

\* C2: round trip: when the pump has completed after reading all the child
\* wrote (every read succeeding), the emitted lines put together are the
\* stream without its terminators: no byte lost, none emitted twice.
C2_RoundTrip ==
    \A t \in Threads :
        (Completed(t) /\ args[t].logwrap /\ readFails[t] = 0 /\ pty[t] = <<>>)
        => Concat(LineTexts(log[t]))
             = Concat(ExpectedLines(orig[t])) \o StripCR(Fragment(orig[t], <<>>))

\* C3: a child that writes N ordinary bytes without a newline, more than the
\* buffer holds and less than two bufferfuls, and exits: when the pump has
\* completed (every read succeeding) the log holds the forced flush of
\* capacity - 1 bytes and then the remaining bytes as one line, and the
\* result is the child's exit code.
C3_FlushThenRest ==
    \A t \in Threads :
        (Completed(t) /\ args[t].logwrap /\ ~args[t].slot /\ readFails[t] = 0
            /\ fate[t].kind = "exit"
            /\ Len(orig[t]) > BufSize - 1 /\ Len(orig[t]) < 2 * (BufSize - 1)
            /\ orig[t] = Run(Len(orig[t])))
        => /\ LineTexts(log[t]) = <<Run(BufSize - 1), Run(Len(orig[t]) - (BufSize - 1))>>
           /\ rc[t] = fate[t].n

\* C4: without a status slot, when the pump has completed, the call returns
\* the exit code (0..255) of a child that exited, and -ECHILD, a negative
\* value, for a child that ended in any other way.
C4_TranslatedResult ==
    \A t \in Threads :
        (pc[t] = "ret" /\ reaps[t] = 1 /\ ~args[t].slot)
        => IF fate[t].kind = "exit"
           THEN rc[t] = fate[t].n /\ rc[t] \in 0..255
           ELSE rc[t] = 0 - ECHILD /\ rc[t] < 0

C4_Witness ==
    \E t \in Threads :
        /\ pc[t] = "ret" /\ reaps[t] = 1 /\ ~args[t].slot
        /\ fate[t] = [kind |-> "exit", n |-> 1] /\ rc[t] = 1

\* C5 as stated: with a status slot, when the pump has completed, the call
\* returns the raw wait status of the child.
C5_ReturnsRawStatus ==
    \A t \in Threads :
        (pc[t] = "ret" /\ reaps[t] = 1 /\ args[t].slot)
        => rc[t] = WaitStatus(fate[t])

\* C5 as amended: with a status slot, when the pump has completed, the raw
\* wait status of the child is in the slot and the call returns 0.
C5_SlotHoldsStatusReturnsZero ==
    \A t \in Threads :
        (pc[t] = "ret" /\ reaps[t] = 1 /\ args[t].slot)
        => chld_sts[t] = WaitStatus(fate[t]) /\ rc[t] = 0

C5_Witness ==
    \E t \in Threads :
        /\ pc[t] = "ret" /\ reaps[t] = 1 /\ args[t].slot
        /\ fate[t] = [kind |-> "exit", n |-> 1] /\ chld_sts[t] = 256

\* C6: when a call that forked a child returns, the child has been reaped
\* exactly once.
C6_ReapedOnce ==
    \A t \in Threads : (pc[t] = "ret" /\ child[t] # "none") => reaps[t] = 1

\* C7 as stated: while the pump runs, the launching thread does not hold
\* fd_mutex.
C7_LockFreeDuringPump ==
    \A t \in Threads : pc[t] \in PumpPcs => fd_mutex # t

\* C7 as amended: the child's copy of fd_mutex is unlocked before the
\* program runs, but the launching thread holds fd_mutex during the whole
\* pump, and no other thread is past its pthread_mutex_lock meanwhile.
C7_LockHeldDuringPump ==
    \A t \in Threads :
        /\ child[t] \in {"running", "closed", "zombie"} => childimg[t].mutex = NoThread
        /\ pc[t] \in PumpPcs =>
             /\ fd_mutex = t
             /\ \A u \in Threads \ {t} : pc[u] \in {"idle", "lock", "ret"}

C7_Witness ==
    \E t \in Threads, u \in Threads :
        /\ pc[t] = "read" /\ child[t] = "running" /\ childimg[t].mutex = NoThread
        /\ pc[u] = "lock" /\ fd_mutex = t

\* C8: at most one thread at a time is between opening the master and the
\* return of its fork call.
C8_SetupSerialized ==
    Cardinality({t \in Threads : pc[t] \in SetupPcs}) <= 1

C8_Witness ==
    \E t \in Threads, u \in Threads : pc[t] = "fork" /\ pc[u] = "lock"

\* C9: when a call that engaged the signal guard returns, the dispositions
\* of SIGINT and SIGQUIT and the thread's mask are those at entry; and
\* while the dispositions differ from those at entry the mask is still the
\* blocking one (the dispositions are restored before the mask).
C9_GuardRestored ==
    \A t \in Threads :
        entry[t].engaged =>
            /\ pc[t] = "ret" => disp = entry[t].disp /\ mask[t] = entry[t].mask
            /\ disp # entry[t].disp => mask[t] = entry[t].mask \cup {SIGINT, SIGQUIT}

C9_Witness ==
    \E t \in Threads :
        /\ pc[t] = "ret" /\ entry[t].engaged /\ args[t].ignore_int_quit /\ reaps[t] = 1
        /\ entry[t].mask = {SIGQUIT} /\ mask[t] = {SIGQUIT}
        /\ entry[t].disp[SIGINT] = "HND" /\ disp[SIGINT] = "HND"

\* C10: with ignore_int_quit, a SIGINT or SIGQUIT sent to the caller between
\* the fork call and the restoring of the dispositions after the pump does
\* not terminate the process there.
C10_NotKilledWhileGuarded ==
    \A t \in Threads :
        (killedBy = t /\ args[t].ignore_int_quit) => pc[t] \notin GuardedPcs

\* A signal arrived after fork returned and before the ignore dispositions
\* were installed, and is pending.
C10_Witness ==
    \E t \in Threads :
        /\ args[t].ignore_int_quit /\ pc[t] = "ign_int" /\ pending[t] # {}
        /\ disp[SIGINT] = "DFL" /\ killedBy = NoThread

\* C11: a call that returns without having forked (the lock, the master,
\* grantpt/unlockpt/ptsname, the slave or fork failed) returns a negative
\* result.
C11_SetupFailureNegative ==
    \A t \in Threads : (pc[t] = "ret" /\ child[t] = "none") => rc[t] < 0

\* C12: when a call returns, no descriptor it opened (master, slave) is
\* open any more and it does not hold fd_mutex.
C12_NothingLeaked ==
    \A t \in Threads :
        pc[t] = "ret" =>
            /\ \A n \in FdNums : fdtab[n] \notin {"ptmx", "pts"}
            /\ fd_mutex # t

\* A call whose fork failed, after both descriptors were open, has returned.
C12_Witness ==
    \E t \in Threads :
        /\ pc[t] = "ret" /\ entry[t].engaged /\ child[t] = "none"
        /\ parent_ptty[t] \in FdNums /\ fdtab[parent_ptty[t]] = "closed"
        /\ child_ptty[t] \in FdNums /\ fdtab[child_ptty[t]] = "closed"
        /\ fd_mutex = NoThread

\* C13 as stated: a call whose argv[0] cannot be resolved never forks.
C13_FailsBeforeFork ==
    \A t \in Threads : ~args[t].resolvable => child[t] = "none"

\* C13 as amended: a call whose argv[0] cannot be resolved forks like any
\* other; the child reports the failed execvp to the log sink and exits
\* with code 255; when the pump has completed the call returns 255 (0 with
\* a status slot, the slot holding the status of exit code 255).
C13_ExecFailsInChild ==
    \A t \in Threads :
        ~args[t].resolvable =>
            /\ child[t] \in {"exiting", "zombie", "reaped"} =>
                 /\ fate[t] = [kind |-> "exit", n |-> 255]
                 /\ \E i \in 1..Len(log[t]) : log[t][i].what = "executing failed"
            /\ (pc[t] = "ret" /\ reaps[t] = 1) =>
                 IF args[t].slot THEN rc[t] = 0 /\ chld_sts[t] = 255 * 256
                 ELSE rc[t] = 255

C13_Witness ==
    \E t \in Threads :
        /\ ~args[t].resolvable /\ pc[t] = "ret" /\ reaps[t] = 1
        /\ ~args[t].slot /\ rc[t] = 255 /\ log[t] # <<>>

\* C14: a cycle whose read returns 0 or -1 logs nothing and leaves the
\* fragment as it was: the same boundaries and the same bytes below b.
C14_FailedReadKeepsFragment ==
    [][\A t \in Threads :
          (pc[t] = "read" /\ readFails'[t] = readFails[t] + 1) =>
              /\ log'[t] = log[t]
              /\ a'[t] = a[t] /\ b'[t] = b[t]
              /\ \A i \in 0..(b[t] - 1) : buffer'[t][i] = buffer[t][i]]_vars

\* C15: when the pump has completed normally, every read having succeeded,
\* nothing the child wrote is left unread in the terminal.
C15_AllBytesRead ==
    \A t \in Threads : (Completed(t) /\ readFails[t] = 0) => pty[t] = <<>>

\* The launch has logged a record of the given kind.
HasNote(t, w) == \E i \in 1..Len(log[t]) : log[t][i].what = w

\* C16: when a call returns after poll or waitpid failed in the pump, its
\* result is the error number of the failed call: a positive number, and
\* for waitpid the one its log record reports.
C16_PumpFailureReturnsErrno ==
    \A t \in Threads :
        pc[t] = "ret" =>
            /\ HasNote(t, "poll failed") => rc[t] > 0
            /\ HasNote(t, "waitpid failed") =>
                 \E i \in 1..Len(log[t]) :
                     log[t][i].what = "waitpid failed" /\ rc[t] = log[t][i].n

\* C17: under fair scheduling, with poll and waitpid not failing, a pump
\* that has started eventually completes with the child reaped and the call
\* gets to its return; and a cycle in which hang-up is reported while the
\* child has not ended goes back to poll: the pump does not return.
C17_PumpTerminates ==
    /\ \A t \in Threads : (pc[t] = "poll") ~> (pc[t] = "ret" /\ reaps[t] = 1)
    /\ [][\A t \in Threads :
             (pc[t] = "hup" /\ child[t] # "zombie" /\ pc'[t] # pc[t])
             => pc'[t] = "poll"]_vars

\* The pump saw the hang-up of a child that has not ended, and polls again.
C17_Witness ==
    \E t \in Threads :
        pc[t] = "poll" /\ child[t] = "closed" /\ "POLLHUP" \in revents[t]

\* The records a step of thread t appends to the log.
NewRecords(t) == SubSeq(log'[t], Len(log[t]) + 1, Len(log'[t]))

\* C18: with logging, the end of a pump that completes appends to the log
\* first the remaining fragment, if any, as one line, and then one summary
\* record, telling how the child ended, exactly when the child did not exit
\* with code 0.
C18_FlushThenSummary ==
    [][\A t \in Threads :
          (pc[t] = "done" /\ pc'[t] # "done" /\ args[t].logwrap) =>
              LET frag == IF a[t] # b[t] THEN 1 ELSE 0
                  summ == IF fate[t] = [kind |-> "exit", n |-> 0] THEN 0 ELSE 1
              IN /\ Len(NewRecords(t)) = frag + summ
                 /\ frag = 1 => NewRecords(t)[1].what = "line"
                 /\ summ = 1 =>
                      /\ NewRecords(t)[frag + 1].tag = "logwrapper"
                      /\ NewRecords(t)[frag + 1].what = fate[t].kind
                      /\ NewRecords(t)[frag + 1].n = fate[t].n]_vars

\* A pump has completed for a child killed by a signal, leaving a fragment
\* line and then the summary record in the log.
C18_Witness ==
    \E t \in Threads :
        /\ Completed(t) /\ args[t].logwrap /\ fate[t].kind = "signal"
        /\ orig[t] = <<97>>
        /\ log[t] = <<LineEntry(<<97>>), NoteEntry("signal", fate[t].n)>>

\* C19: at every poll-cycle boundary of the pump a = 0 and
\* 0 <= b <= capacity - 2, so that the next read asks for at least one byte.
C19_CycleBoundary ==
    \A t \in Threads :
        pc[t] \in PumpPcs =>
            /\ a[t] = 0
            /\ 0 <= b[t] /\ b[t] <= BufSize - 2
            /\ BufSize - 1 - b[t] >= 1

\* A cycle boundary with the longest fragment, after a read that failed.
C19_Witness ==
    \E t \in Threads :
        pc[t] = "poll" /\ b[t] = BufSize - 2 /\ a[t] = 0 /\ readFails[t] = 1

\* C20: once the child branch has run, in the child the master is closed,
\* descriptors 1 and 2 are the slave, and the mask is the caller's at entry.
C20_ChildStreams ==
    \A t \in Threads :
        child[t] \notin {"none", "forked"} =>
            /\ childimg[t].fds[1] = "pts" /\ childimg[t].fds[2] = "pts"
            /\ \A n \in FdNums : childimg[t].fds[n] # "ptmx"
            /\ childimg[t].mask = entry[t].mask

====
